---------------------------- MODULE Spec2Model ----------------------------
(***************************************************************************)
(* Model of the polynomial-surface scripts of optical-automation:          *)
(*   A_1_Create_stl_polynomial_surface.py        (the fit script)          *)
(*   A_2_Create_a_variable_pitch_from_the_polynomial_surface.py            *)
(*                                               (the mapping script)      *)
(*                                                                         *)
(* Numbers.  Python floats are modelled as fixed-point numbers: an integer *)
(* n stands for n * 1e-12, so that the eps = 1e-12 of generate_points is   *)
(* one unit and its 1e-9 tolerance is 1000 units.  Sums, differences and   *)
(* products of these integers are exact; every division rounds to the      *)
(* nearest unit (RoundDiv).                                                *)
(***************************************************************************)
EXTENDS Integers, Sequences, FiniteSets, TLC

(***************************************************************************)
(* Bounds of the model.                                                    *)
(***************************************************************************)
MaxSpan == 2

MaxOrder == 3

MaxRes == 5

MaxRows == 2

(***************************************************************************)
(* Arithmetic helpers.                                                     *)
(***************************************************************************)
Min(a, b) == IF a <= b THEN a ELSE b

Abs(a) == IF a < 0 THEN -a ELSE a

\* n / d rounded to the nearest unit (halves round up); d # 0.
RoundDiv(n, d) ==
  IF d > 0 THEN (2 * n + d) \div (2 * d)
  ELSE (2 * (-n) + (-d)) \div (2 * (-d))

\* every sequence over S of length at most n
SeqsUpTo(S, n) == UNION { [1..m -> S] : m \in 0..n }

\* np.clip(v, lo, hi)
Clip(v, lo, hi) == IF v < lo THEN lo ELSE IF v > hi THEN hi ELSE v

\* A non-finite float (nan, inf or -inf), the result of a division by zero.
NaN == -999999937

FAdd(a, b) == IF a = NaN \/ b = NaN THEN NaN ELSE a + b

FMul(a, b) == IF a = NaN \/ b = NaN THEN NaN ELSE a * b

\* a / b as numpy divides: no exception, a non-finite value when b is 0.
FDiv(a, b) == IF a = NaN \/ b = NaN \/ b = 0 THEN NaN ELSE RoundDiv(a, b)

RECURSIVE IntPow(_, _)
IntPow(a, n) == IF n = 0 THEN 1 ELSE a * IntPow(a, n - 1)

\* a ** n for an integer n >= 0; numpy gives nan ** 0 = inf ** 0 = 1.
FPow(a, n) == IF n = 0 THEN 1 ELSE IF a = NaN THEN NaN ELSE IntPow(a, n)

(***************************************************************************)
(* The polynomial of both scripts: build_design_matrix and                 *)
(* evaluate_fitted_surface of the fit script, eval_poly2d of the mapping   *)
(* script.  Arrays are sequences; coeffs[idx] of the code is cs[idx + 1].  *)
(***************************************************************************)
\* terms.append((x**i) * (y**j)): one column, over the samples.
Monomial(xa, ya, i, j) ==
  [n \in 1..Len(xa) |-> FMul(FPow(xa[n], i), FPow(ya[n], j))]

RECURSIVE DesignTerms(_, _, _, _, _, _)
DesignTerms(xa, ya, ord, i, j, terms) ==
  IF i >= ord + 1 THEN terms
  ELSE IF j >= ord + 1 - i THEN DesignTerms(xa, ya, ord, i + 1, 0, terms)
  ELSE DesignTerms(xa, ya, ord, i, j + 1, Append(terms, Monomial(xa, ya, i, j)))

\* np.vstack(terms).T: row n holds entry n of every term.
VStackT(terms, nrows) ==
  [n \in 1..nrows |-> [k \in 1..Len(terms) |-> terms[k][n]]]

BuildDesignMatrixSquare(xa, ya, ord) ==
  VStackT([k \in 1..((ord + 1) * (ord + 1)) |->
             Monomial(xa, ya, (k - 1) \div (ord + 1), (k - 1) % (ord + 1))],
          Len(xa))

build_design_matrix(xa, ya, ord) ==
  VStackT(DesignTerms(xa, ya, ord, 0, 0, <<>>), Len(xa))

\* z += coeffs[idx] * (x**i) * (y**j), elementwise.
AddTerm(z, c, xa, ya, i, j) ==
  [n \in 1..Len(z) |-> FAdd(z[n], FMul(FMul(c, FPow(xa[n], i)), FPow(ya[n], j)))]

\* The result of an evaluator: the array z, the coefficient indices it read
\* (as the code counts them, from 0), and whether coeffs[idx] raised
\* IndexError.
EvalResult(z, reads, raised) == [z |-> z, reads |-> reads, raised |-> raised]

RECURSIVE FitEvalLoop(_, _, _, _, _, _, _, _, _)
FitEvalLoop(cs, xa, ya, ord, i, j, idx, z, reads) ==
  IF i >= ord + 1 THEN EvalResult(z, reads, FALSE)
  ELSE IF j >= ord + 1 - i THEN FitEvalLoop(cs, xa, ya, ord, i + 1, 0, idx, z, reads)
  ELSE IF idx >= Len(cs) THEN EvalResult(z, reads \cup {idx}, TRUE)
  ELSE FitEvalLoop(cs, xa, ya, ord, i, j + 1, idx + 1,
                   AddTerm(z, cs[idx + 1], xa, ya, i, j), reads \cup {idx})

evaluate_fitted_surface(cs, xa, ya, ord) ==
  FitEvalLoop(cs, xa, ya, ord, 0, 0, 0, [n \in 1..Len(xa) |-> 0], {})

RECURSIVE MapEvalLoop(_, _, _, _, _, _, _, _, _)
MapEvalLoop(cs, xa, ya, ord, i, j, idx, z, reads) ==
  IF i >= ord + 1 THEN EvalResult(z, reads, FALSE)
  ELSE IF j >= ord + 1 - i THEN MapEvalLoop(cs, xa, ya, ord, i + 1, 0, idx, z, reads)
  ELSE IF idx >= Len(cs) THEN EvalResult(z, reads \cup {idx}, TRUE)
  ELSE MapEvalLoop(cs, xa, ya, ord, i, j + 1, idx + 1,
                   AddTerm(z, cs[idx + 1], xa, ya, i, j), reads \cup {idx})

EvalPoly2dJOuter(cs, xa, ya, ord) ==
  MapEvalLoop(cs, ya, xa, ord, 0, 0, 0, [n \in 1..Len(xa) |-> 0], {})

eval_poly2d(cs, xa, ya, ord) ==
  MapEvalLoop(cs, xa, ya, ord, 0, 0, 0, [n \in 1..Len(xa) |-> 0], {})

(***************************************************************************)
(* generate_points of the mapping script, one action per loop step.        *)
(***************************************************************************)
VARIABLES
  gpc,            \* position in generate_points
  domain,         \* <<x_min, x_max, y_min, y_max>>
  p_start, p_end, p_y, include_edges,
  ys, y, x, row, rowIdx, X_list, Y_list,
  gerr            \* the exception generate_points raised, "" when none

gridVars == <<gpc, domain, p_start, p_end, p_y, include_edges,
              ys, y, x, row, rowIdx, X_list, Y_list, gerr>>

VARIABLES
  pOrder, pX, pY, pCoeffs,   \* arguments of the polynomial functions
  pcalls,                    \* which of them have been applied
  pDesign, pFit, pMap        \* what they returned

polyVars == <<pOrder, pX, pY, pCoeffs, pcalls, pDesign, pFit, pMap>>

VARIABLES
  mpc,                 \* position in the triangulation loop
  res_x, res_y,        \* shape of the vertex grid
  mi, mj,              \* the loop indices i and j
  faces                \* the triangles appended so far

meshVars == <<mpc, res_x, res_y, mi, mj, faces>>

VARIABLES
  files,               \* the disk: file name -> <<>> (absent) or <<content>>
  fpc, fcaller,        \* create_polynomial_surface: position, caller
  order, points, x_mean, x_std, y_mean, y_std, X_design, coeffs, vertices,
  ferr,                \* the exception the fit raised, "" when none
  mainpc,              \* main of the mapping script: position
  cfg,                 \* its CONFIG block
  model, loaded,       \* the parsed JSON and the values main reads from it
  Z_pts,
  merr                 \* the exception main ended with, "" when none

fitVars == <<fpc, fcaller, order, points, x_mean, x_std, y_mean, y_std,
             X_design, coeffs, vertices, ferr>>

mainVars == <<mainpc, cfg, model, loaded, Z_pts, merr>>

pipeVars == <<files, fitVars, mainVars>>

VARIABLES
  self_rows,           \* DynamicProbabilityForm.rows: one record per TextBox pair
  panel,               \* ids of the rows whose TextBoxes are in panel.Controls
  form_points,         \* DynamicProbabilityForm.points
  Visible,             \* the form is on screen
  DialogResult,        \* "None" until Run succeeds, then "OK"
  messages             \* titles of the message boxes shown so far

formVars == <<self_rows, panel, form_points, Visible, DialogResult, messages>>

VARIABLES
  rpc,                 \* process_mapping_file: position
  input_file,          \* the lines of the mapping file the texture points to
  control_points,      \* its control_points argument
  parsed,              \* (x, line) pairs
  pm_x_max,            \* its local x_max
  pm_k,                \* index of the next entry of parsed to filter
  x_norms, probs, draws, \* per filtered row: x / x_max, p and random.random()
  filtered_lines,
  output_file,         \* <<>> while not written, else <<its lines>>
  rerr                 \* the exception the script ended with, "" when none

filterVars == <<rpc, input_file, control_points, parsed, pm_x_max, pm_k,
                x_norms, probs, draws, filtered_lines, output_file, rerr>>

randomVars == <<formVars, filterVars>>

VARIABLES
  kpc,                 \* B_2 script: position
  kz_input,            \* the lines of the file at input_path
  header, data,        \* its header and data
  kz_x_min, kz_x_max,  \* its x_min and x_max
  kz_row,              \* index of the next row of data to update
  kz_output,           \* <<>> while not written, else <<the lines at output_path>>
  kerr                 \* the exception the script ended with, "" when none

kzVars == <<kpc, kz_input, header, data, kz_x_min, kz_x_max, kz_row,
            kz_output, kerr>>

toolVars == <<randomVars, kzVars>>

vars == <<gridVars, polyVars, meshVars, pipeVars, toolVars>>

\* eps = 1e-12 and the 1e-9 tolerance of the edge tests, in units of 1e-12.
eps == 1

EdgeTol == 1000

x_min == domain[1]

x_max == domain[2]

y_min == domain[3]

y_max == domain[4]

\* linear_pitch_x: p_start * (1 - t) + p_end * t with
\* t = clip((x - x_min) / (x_max - x_min), 0, 1), t kept as the exact
\* fraction tn / w and the result rounded once.
LinearPitchXSwapped(xv, xmin, xmax, ps, pe) ==
  IF xmax = xmin THEN pe
  ELSE LET w  == Abs(xmax - xmin)
           tn == Clip(IF xmax > xmin THEN xv - xmin ELSE xmin - xv, 0, w)
       IN  RoundDiv(pe * (w - tn) + ps * tn, w)

linear_pitch_x(xv, xmin, xmax, ps, pe) ==
  IF xmax = xmin THEN ps
  ELSE LET w  == Abs(xmax - xmin)
           tn == Clip(IF xmax > xmin THEN xv - xmin ELSE xmin - xv, 0, w)
       IN  RoundDiv(ps * (w - tn) + pe * tn, w)

\* if p_start <= 0 or p_end <= 0 or p_y <= 0: raise ValueError
PitchCheckForgetsEnd(ps, pe, py) == ps <= 0 \/ py <= 0

InvalidPitch(ps, pe, py) == ps <= 0 \/ pe <= 0 \/ py <= 0

GP_Check ==
  /\ gpc = "start"
  /\ IF InvalidPitch(p_start, p_end, p_y)
     THEN /\ gpc' = "raised"
          /\ gerr' = "ValueError"
          /\ UNCHANGED y
     ELSE /\ gpc' = "ywalk"
          /\ y' = y_min
          /\ UNCHANGED gerr
  /\ UNCHANGED <<domain, p_start, p_end, p_y, include_edges,
                 ys, x, row, rowIdx, X_list, Y_list>>
  /\ UNCHANGED <<polyVars, toolVars, meshVars, pipeVars>>

\* while y <= y_max + eps: ys.append(min(y, y_max)); y += p_y
GP_YStep ==
  /\ gpc = "ywalk"
  /\ y <= y_max + eps
  /\ ys' = Append(ys, Min(y, y_max))
  /\ y' = y + p_y
  /\ UNCHANGED <<gpc, domain, p_start, p_end, p_y, include_edges,
                 x, row, rowIdx, X_list, Y_list, gerr>>
  /\ UNCHANGED <<polyVars, toolVars, meshVars, pipeVars>>

\* The edge test of lines 104 and 114: ys[-1] and row[-1] raise IndexError
\* on an empty list; `include_edges and ...` reads the list only when
\* include_edges is true.
EdgeRaises(list) == include_edges /\ list = <<>>

WithEdgeNoAppend(list, bound) == list

WithEdge(list, bound) ==
  IF include_edges /\ Abs(list[Len(list)] - bound) > EdgeTol
  THEN Append(list, bound) ELSE list

\* if include_edges and abs(ys[-1] - y_max) > 1e-9: ys.append(y_max)
GP_YEnd ==
  /\ gpc = "ywalk"
  /\ y > y_max + eps
  /\ IF EdgeRaises(ys)
     THEN /\ gpc' = "raised"
          /\ gerr' = "IndexError"
          /\ UNCHANGED <<ys, rowIdx>>
     ELSE /\ gpc' = "rows"
          /\ ys' = WithEdge(ys, y_max)
          /\ rowIdx' = 1
          /\ UNCHANGED gerr
  /\ UNCHANGED <<domain, p_start, p_end, p_y, include_edges,
                 y, x, row, X_list, Y_list>>
  /\ UNCHANGED <<polyVars, toolVars, meshVars, pipeVars>>

\* for yy in ys: x = x_min; row = []
GP_RowStart ==
  /\ gpc = "rows"
  /\ rowIdx <= Len(ys)
  /\ gpc' = "xwalk"
  /\ x' = x_min
  /\ row' = <<>>
  /\ UNCHANGED <<domain, p_start, p_end, p_y, include_edges,
                 ys, y, rowIdx, X_list, Y_list, gerr>>
  /\ UNCHANGED <<polyVars, toolVars, meshVars, pipeVars>>

\* while x <= x_max + eps: row.append(min(x, x_max)); x += linear_pitch_x(...)
GP_XStep ==
  /\ gpc = "xwalk"
  /\ x <= x_max + eps
  /\ row' = Append(row, Min(x, x_max))
  /\ x' = x + linear_pitch_x(x, x_min, x_max, p_start, p_end)
  /\ UNCHANGED <<gpc, domain, p_start, p_end, p_y, include_edges,
                 ys, y, rowIdx, X_list, Y_list, gerr>>
  /\ UNCHANGED <<polyVars, toolVars, meshVars, pipeVars>>

\* if include_edges and abs(row[-1] - x_max) > 1e-9: row.append(x_max)
\* X_list.extend(row); Y_list.extend([yy] * len(row))
GP_RowEnd ==
  /\ gpc = "xwalk"
  /\ x > x_max + eps
  /\ IF EdgeRaises(row)
     THEN /\ gpc' = "raised"
          /\ gerr' = "IndexError"
          /\ UNCHANGED <<row, rowIdx, X_list, Y_list>>
     ELSE LET full == IF row = <<>> THEN row ELSE WithEdge(row, x_max)
          IN  /\ gpc' = "rows"
              /\ row' = full
              /\ X_list' = X_list \o full
              /\ Y_list' = Y_list \o [k \in 1..Len(full) |-> ys[rowIdx]]
              /\ rowIdx' = rowIdx + 1
              /\ UNCHANGED gerr
  /\ UNCHANGED <<domain, p_start, p_end, p_y, include_edges, ys, y, x>>
  /\ UNCHANGED <<polyVars, toolVars, meshVars, pipeVars>>

\* return np.asarray(X_list), np.asarray(Y_list)
GP_Return ==
  /\ gpc = "rows"
  /\ rowIdx > Len(ys)
  /\ gpc' = "done"
  /\ UNCHANGED <<domain, p_start, p_end, p_y, include_edges,
                 ys, y, x, row, rowIdx, X_list, Y_list, gerr>>
  /\ UNCHANGED <<polyVars, toolVars, meshVars, pipeVars>>

GridNext ==
  \/ GP_Check
  \/ GP_YStep
  \/ GP_YEnd
  \/ GP_RowStart
  \/ GP_XStep
  \/ GP_RowEnd
  \/ GP_Return

\* The arguments generate_points is applied to.
PitchValues == {-1000, 0, 2000, 3000}

PitchYValues == {0, 2000, 3000}

XMinValues == {0, 1000}

XMaxOffsets == {-2000, -1, 0, 1, 500, 1500}

YMaxValues == {-2000, -1, 0, 1999, 2500, 4000}

GridDomains ==
  { <<xlo, xlo + 2000 * k + d, 0, yhi>> :
      xlo \in XMinValues, k \in 0..MaxSpan, d \in XMaxOffsets, yhi \in YMaxValues }

GridIdle ==
  /\ gpc = "idle"
  /\ domain = <<0, 0, 0, 0>>
  /\ p_start = 0
  /\ p_end = 0
  /\ p_y = 0
  /\ include_edges = FALSE
  /\ ys = <<>>
  /\ y = 0
  /\ x = 0
  /\ row = <<>>
  /\ rowIdx = 0
  /\ X_list = <<>>
  /\ Y_list = <<>>
  /\ gerr = ""

\* Calls with pitches of the size of eps, on domains a few eps wide.
FineCalls ==
  { <<dom, ps, pe, py>> :
      dom \in { <<0, w, 0, h>> : w \in {0, 1, 3}, h \in {0, 2} },
      ps \in {1, 2}, pe \in {1, 2}, py \in {1, 2} }

GridCalls ==
  { <<dom, ps, pe, py>> :
      dom \in GridDomains, ps \in PitchValues, pe \in PitchValues,
      py \in PitchYValues } \cup FineCalls

GridInit ==
  /\ gpc = "start"
  /\ \E call \in GridCalls :
       /\ domain = call[1]
       /\ p_start = call[2]
       /\ p_end = call[3]
       /\ p_y = call[4]
  /\ include_edges \in BOOLEAN
  /\ ys = <<>>
  /\ y = 0
  /\ x = 0
  /\ row = <<>>
  /\ rowIdx = 0
  /\ X_list = <<>>
  /\ Y_list = <<>>
  /\ gerr = ""

(***************************************************************************)
(* The three polynomial functions applied to the same arguments.           *)
(***************************************************************************)
NoResult == EvalResult(<<>>, {}, FALSE)

PolyIdle ==
  /\ pOrder = 0
  /\ pX = <<>>
  /\ pY = <<>>
  /\ pCoeffs = <<>>
  /\ pcalls = {}
  /\ pDesign = <<>>
  /\ pFit = NoResult
  /\ pMap = NoResult

Poly_Design ==
  /\ "design" \notin pcalls
  /\ pX # <<>>
  /\ pDesign' = build_design_matrix(pX, pY, pOrder)
  /\ pcalls' = pcalls \cup {"design"}
  /\ UNCHANGED <<pOrder, pX, pY, pCoeffs, pFit, pMap>>
  /\ UNCHANGED <<gridVars, meshVars, pipeVars, toolVars>>

Poly_EvalFit ==
  /\ "fit" \notin pcalls
  /\ pX # <<>>
  /\ pFit' = evaluate_fitted_surface(pCoeffs, pX, pY, pOrder)
  /\ pcalls' = pcalls \cup {"fit"}
  /\ UNCHANGED <<pOrder, pX, pY, pCoeffs, pDesign, pMap>>
  /\ UNCHANGED <<gridVars, meshVars, pipeVars, toolVars>>

Poly_EvalMap ==
  /\ "map" \notin pcalls
  /\ pX # <<>>
  /\ pMap' = eval_poly2d(pCoeffs, pX, pY, pOrder)
  /\ pcalls' = pcalls \cup {"map"}
  /\ UNCHANGED <<pOrder, pX, pY, pCoeffs, pDesign, pFit>>
  /\ UNCHANGED <<gridVars, meshVars, pipeVars, toolVars>>

PolyNext ==
  \/ Poly_Design
  \/ Poly_EvalFit
  \/ Poly_EvalMap

\* The arguments: sample arrays (one of them holding a non-finite value),
\* and coefficient vectors one shorter than, as long as and one longer than
\* a fit of the order returns.
PolySamples ==
  { << <<2>>, <<3>> >>, << <<3, -1>>, <<2, 5>> >>, << <<0, 1>>, <<1, 0>> >>,
    << <<-2, NaN>>, <<3, 2>> >>, << <<1, 1>>, <<-1, 2>> >> }

Ramp(n) == [k \in 1..n |-> k]

UnitVector(n, m) == [k \in 1..n |-> IF k = m THEN 1 ELSE 0]

CoeffCount(d) == ((d + 1) * (d + 2)) \div 2

PolyCoeffs(d) ==
  {Ramp(CoeffCount(d) - 1), Ramp(CoeffCount(d)), Ramp(CoeffCount(d) + 1)}
    \cup {UnitVector(CoeffCount(d), m) : m \in 1..CoeffCount(d)}

PolyInit ==
  /\ pOrder \in 0..MaxOrder
  /\ \E s \in PolySamples : pX = s[1] /\ pY = s[2]
  /\ pCoeffs \in PolyCoeffs(pOrder)
  /\ pcalls = {}
  /\ pDesign = <<>>
  /\ pFit = NoResult
  /\ pMap = NoResult

(***************************************************************************)
(* The triangulation loop of create_polynomial_surface (lines 106-112).    *)
(***************************************************************************)
\* idx = i * res_y + j
FlatIndexByResX(i, j, rx, ry) == i * rx + j

FlatIndex(i, j, rx, ry) == i * ry + j

\* faces.append([idx, idx + 1, idx + res_y])
\* faces.append([idx + 1, idx + res_y + 1, idx + res_y])
CellFaces(idx, ry) ==
  << <<idx, idx + 1, idx + ry>>, <<idx + 1, idx + ry + 1, idx + ry>> >>

MeshIdle ==
  /\ mpc = "idle"
  /\ res_x = 0
  /\ res_y = 0
  /\ mi = 0
  /\ mj = 0
  /\ faces = <<>>

\* for i in range(res_x - 1): for j in range(res_y - 1): one cell
Mesh_Cell ==
  /\ mpc = "loop"
  /\ mi < res_x - 1
  /\ mj < res_y - 1
  /\ faces' = faces \o CellFaces(FlatIndex(mi, mj, res_x, res_y), res_y)
  /\ mj' = mj + 1
  /\ UNCHANGED <<mpc, res_x, res_y, mi>>
  /\ UNCHANGED <<gridVars, polyVars, toolVars, pipeVars>>

\* the inner range is exhausted: next i
Mesh_NextRow ==
  /\ mpc = "loop"
  /\ mi < res_x - 1
  /\ mj >= res_y - 1
  /\ mi' = mi + 1
  /\ mj' = 0
  /\ UNCHANGED <<mpc, res_x, res_y, faces>>
  /\ UNCHANGED <<gridVars, polyVars, toolVars, pipeVars>>

\* the outer range is exhausted
Mesh_Done ==
  /\ mpc = "loop"
  /\ mi >= res_x - 1
  /\ mpc' = "done"
  /\ UNCHANGED <<res_x, res_y, mi, mj, faces>>
  /\ UNCHANGED <<gridVars, polyVars, toolVars, pipeVars>>

MeshNext ==
  \/ Mesh_Cell
  \/ Mesh_NextRow
  \/ Mesh_Done

MeshInit ==
  /\ mpc = "loop"
  /\ res_x \in 1..MaxRes
  /\ res_y \in 1..MaxRes
  /\ mi = 0
  /\ mj = 0
  /\ faces = <<>>

(***************************************************************************)
(* The two scripts against one disk.  The fit script is                    *)
(* create_polynomial_surface (called by its own main, by an importing      *)
(* script, or by ensure_model_json); the mapping script is main.           *)
(***************************************************************************)
\* The file names of the CONFIG block; both scripts use the same paths.
FileNames == {"INPUT_MAPPING", "OUTPUT_STL", "MODEL_JSON", "OUTPUT_MAPPING"}

Exists(name) == files[name] # <<>>

Content(name) == files[name][1]

\* order: int = 5, the default of create_polynomial_surface
DefaultOrder == 5

\* np.linspace(..., 100): the vertex grid is GridN x GridN.  The model keeps
\* the grid small; the triangulation itself is checked for all shapes.
GridN == 2

RECURSIVE SumSeq(_)
SumSeq(a) == IF a = <<>> THEN 0 ELSE Head(a) + SumSeq(Tail(a))

RECURSIVE MinSeq(_)
MinSeq(a) == IF Len(a) = 1 THEN a[1] ELSE Min(a[1], MinSeq(Tail(a)))

RECURSIVE MaxSeq(_)
MaxSeq(a) == IF Len(a) = 1 THEN a[1] ELSE -Min(-a[1], -MaxSeq(Tail(a)))

RECURSIVE SqrtFloor(_, _, _)
SqrtFloor(v, lo, hi) ==
  IF lo >= hi THEN lo
  ELSE LET mid == (lo + hi + 1) \div 2
       IN  IF mid * mid <= v THEN SqrtFloor(v, mid, hi)
           ELSE SqrtFloor(v, lo, mid - 1)

\* the square root, rounded to the nearest unit
Sqrt(v) ==
  LET r == SqrtFloor(v, 0, Min(v, 40000))
  IN  IF v - r * r > r THEN r + 1 ELSE r

\* ndarray.mean() and ndarray.std() (population standard deviation)
Mean(a) == RoundDiv(SumSeq(a), Len(a))

Std(a) ==
  LET mu == Mean(a)
  IN  Sqrt(Mean([n \in 1..Len(a) |-> (a[n] - mu) * (a[n] - mu)]))

\* points[:, c]
Column(pts, c) == [n \in 1..Len(pts) |-> pts[n][c]]

\* (a - mean) / std, elementwise
Normalise(a, mu, sd) == [n \in 1..Len(a) |-> FDiv(a[n] - mu, sd)]

\* lines = f.readlines()[1:]
DataLines(text) == IF text = <<>> THEN <<>> ELSE Tail(text)

\* [list(map(float, line.strip().split()[:3])) for line in lines
\*  if len(line.strip().split()) >= 3]
HasThreeFields(line) == Len(line) >= 3

ParsePoints(lines) ==
  LET kept == SelectSeq(lines, HasThreeFields)
  IN  [n \in 1..Len(kept) |-> SubSeq(kept[n], 1, 3)]

HasNaN(matrix) ==
  \E n \in 1..Len(matrix) : \E k \in 1..Len(matrix[n]) : matrix[n][k] = NaN

\* np.linalg.lstsq(X_design, z, rcond=None)[0].  The solver's arithmetic is
\* not modelled: it returns one vector with an entry per column of X_design.
\* On a matrix holding a non-finite value LAPACK either fails to converge
\* (LinAlgError, action F_FitRaises) or returns non-finite coefficients.
Lstsq(matrix, z) ==
  LET n == Len(matrix[1])
  IN  IF HasNaN(matrix) THEN {[k \in 1..n |-> NaN]}
      ELSE {[k \in 1..n |-> k], [k \in 1..n |-> z[1] + n - k]}

\* np.linspace(lo, hi, n)
Linspace(lo, hi, n) ==
  [k \in 1..n |-> IF n = 1 THEN lo ELSE lo + RoundDiv((k - 1) * (hi - lo), n - 1)]

\* lines 98-105: the grid over the raw domain, flattened row by row
\* (np.meshgrid: entry (i, j) holds x_grid[j] and y_grid[i]), and its z.
MeshVertices(cs, ord, pts, xmu, xsd, ymu, ysd) ==
  LET xgrid == Linspace(MinSeq(Column(pts, 1)), MaxSeq(Column(pts, 1)), GridN)
      ygrid == Linspace(MinSeq(Column(pts, 2)), MaxSeq(Column(pts, 2)), GridN)
      xflat == [t \in 1..(GridN * GridN) |-> xgrid[((t - 1) % GridN) + 1]]
      yflat == [t \in 1..(GridN * GridN) |-> ygrid[((t - 1) \div GridN) + 1]]
      zg    == evaluate_fitted_surface(cs, Normalise(xflat, xmu, xsd),
                                       Normalise(yflat, ymu, ysd), ord).z
  IN  [t \in 1..(GridN * GridN) |-> <<xflat[t], yflat[t], zg[t]>>]

\* The keys of the model dict, lines 117-128, in the order it is written.
ModelKeysDegree ==
  <<"degree", "coeffs", "x_mean", "x_std", "y_mean", "y_std",
    "x_min", "x_max", "y_min", "y_max">>

ModelKeys ==
  <<"order", "coeffs", "x_mean", "x_std", "y_mean", "y_std",
    "x_min", "x_max", "y_min", "y_max">>

ModelValues(ord, cs, pts, xmu, xsd, ymu, ysd) ==
  <<ord, cs, xmu, xsd, ymu, ysd,
    MinSeq(Column(pts, 1)), MaxSeq(Column(pts, 1)),
    MinSeq(Column(pts, 2)), MaxSeq(Column(pts, 2))>>

\* json.dump: the text is the sequence of "key": value members.  Python
\* writes a float by repr and reads it back to the same float.
JsonDump(keys, values) == [k \in 1..Len(keys) |-> <<keys[k], values[k]>>]

\* json.load: an object; of two members with one key the later wins.
JsonLoad(text) ==
  [key \in {text[n][1] : n \in 1..Len(text)} |->
     text[CHOOSE n \in 1..Len(text) :
            /\ text[n][1] = key
            /\ \A m \in (n + 1)..Len(text) : text[m][1] # key][2]]

FitIdle ==
  /\ fpc = "idle"
  /\ fcaller = ""
  /\ order = 0
  /\ points = <<>>
  /\ x_mean = 0
  /\ x_std = 0
  /\ y_mean = 0
  /\ y_std = 0
  /\ X_design = <<>>
  /\ coeffs = <<>>
  /\ vertices = <<>>
  /\ ferr = ""

\* A call of create_polynomial_surface(INPUT_MAPPING, OUTPUT_STL, MODEL_JSON, d).
FitCall(d, caller) ==
  /\ fpc' = "read"
  /\ fcaller' = caller
  /\ order' = d
  /\ points' = <<>>
  /\ x_mean' = 0
  /\ x_std' = 0
  /\ y_mean' = 0
  /\ y_std' = 0
  /\ X_design' = <<>>
  /\ coeffs' = <<>>
  /\ vertices' = <<>>
  /\ ferr' = ""

\* The fit script is run: by its main (order 5) or by an importing caller.
F_Start ==
  /\ fpc = "idle"
  /\ mainpc = "idle"
  /\ \E d \in (0..MaxOrder) \cup {DefaultOrder} : FitCall(d, "user")
  /\ UNCHANGED <<files, mainVars, gridVars, polyVars, toolVars, meshVars>>

\* lines 83-88: read, parse, slice the columns
F_Read ==
  /\ fpc = "read"
  /\ points' = ParsePoints(DataLines(Content("INPUT_MAPPING")))
  /\ IF points' = <<>>
     THEN fpc' = "raised" /\ ferr' = "IndexError"
     ELSE fpc' = "normalise" /\ UNCHANGED ferr
  /\ UNCHANGED <<fcaller, order, x_mean, x_std, y_mean, y_std,
                 X_design, coeffs, vertices>>
  /\ UNCHANGED <<files, mainVars, gridVars, polyVars, toolVars, meshVars>>

\* lines 90-93
F_Normalise ==
  /\ fpc = "normalise"
  /\ x_mean' = Mean(Column(points, 1))
  /\ x_std' = Std(Column(points, 1))
  /\ y_mean' = Mean(Column(points, 2))
  /\ y_std' = Std(Column(points, 2))
  /\ fpc' = "fit"
  /\ UNCHANGED <<fcaller, order, points, X_design, coeffs, vertices, ferr>>
  /\ UNCHANGED <<files, mainVars, gridVars, polyVars, toolVars, meshVars>>

FitDesign ==
  build_design_matrix(Normalise(Column(points, 1), x_mean, x_std),
                      Normalise(Column(points, 2), y_mean, y_std), order)

\* lines 95-96
F_Fit ==
  /\ fpc = "fit"
  /\ X_design' = FitDesign
  /\ coeffs' \in Lstsq(FitDesign, Column(points, 3))
  /\ fpc' = "grid"
  /\ UNCHANGED <<fcaller, order, points, x_mean, x_std, y_mean, y_std,
                 vertices, ferr>>
  /\ UNCHANGED <<files, mainVars, gridVars, polyVars, toolVars, meshVars>>

\* line 96, the solver not converging on non-finite input
F_FitRaises ==
  /\ fpc = "fit"
  /\ HasNaN(FitDesign)
  /\ X_design' = FitDesign
  /\ fpc' = "raised"
  /\ ferr' = "LinAlgError"
  /\ UNCHANGED <<fcaller, order, points, x_mean, x_std, y_mean, y_std,
                 coeffs, vertices>>
  /\ UNCHANGED <<files, mainVars, gridVars, polyVars, toolVars, meshVars>>

\* lines 98-107: the vertices; the triangulation loop starts
F_Grid ==
  /\ fpc = "grid"
  /\ vertices' = MeshVertices(coeffs, order, points, x_mean, x_std, y_mean, y_std)
  /\ fpc' = "mesh"
  /\ mpc' = "loop"
  /\ res_x' = GridN
  /\ res_y' = GridN
  /\ mi' = 0
  /\ mj' = 0
  /\ faces' = <<>>
  /\ UNCHANGED <<fcaller, order, points, x_mean, x_std, y_mean, y_std,
                 X_design, coeffs, ferr>>
  /\ UNCHANGED <<files, mainVars, gridVars, polyVars, toolVars>>

\* lines 113-114: mesh.export(output_stl)
F_Export ==
  /\ fpc = "mesh"
  /\ mpc = "done"
  /\ files' = [files EXCEPT !["OUTPUT_STL"] =
                 << [vertices |-> vertices, faces |-> faces] >>]
  /\ fpc' = "save"
  /\ UNCHANGED <<fcaller, order, points, x_mean, x_std, y_mean, y_std,
                 X_design, coeffs, vertices, ferr>>
  /\ UNCHANGED <<mainVars, gridVars, polyVars, toolVars, meshVars>>

\* lines 117-133: json.dump(model, f)
F_Save ==
  /\ fpc = "save"
  /\ files' = [files EXCEPT !["MODEL_JSON"] =
                 << JsonDump(ModelKeys,
                             ModelValues(order, coeffs, points,
                                         x_mean, x_std, y_mean, y_std)) >>]
  /\ fpc' = "done"
  /\ UNCHANGED <<fcaller, order, points, x_mean, x_std, y_mean, y_std,
                 X_design, coeffs, vertices, ferr>>
  /\ UNCHANGED <<mainVars, gridVars, polyVars, toolVars, meshVars>>

FitNext ==
  \/ F_Start
  \/ F_Read
  \/ F_Normalise
  \/ F_Fit
  \/ F_FitRaises
  \/ F_Grid
  \/ F_Export
  \/ F_Save

(***************************************************************************)
(* main of the mapping script.                                             *)
(***************************************************************************)
\* An override of the CONFIG block (X_MIN, ...): <<>> is None, <<v>> is v.
None == <<>>

\* `X_MIN or float(model["x_min"])`: Python takes the right operand when the
\* left one is falsy, and None and 0 are both falsy.
Truthy(override) == override # None /\ override[1] # 0

OrModel(override, obj, key) == IF Truthy(override) THEN override[1] ELSE obj[key]

\* The keys main reads, lines 170-178; a missing one raises KeyError.
KeysRead(c) ==
  {"order", "coeffs", "x_mean", "x_std", "y_mean", "y_std"}
    \cup (IF Truthy(c.X_MIN) THEN {} ELSE {"x_min"})
    \cup (IF Truthy(c.X_MAX) THEN {} ELSE {"x_max"})
    \cup (IF Truthy(c.Y_MIN) THEN {} ELSE {"y_min"})
    \cup (IF Truthy(c.Y_MAX) THEN {} ELSE {"y_max"})

\* EXTRA_CONSTANTS, line 60
ExtraConstants == <<"1", "0", "0", "0", "1", "0", "0.5", "0.5", "1">>

\* "{:.6f}".format(v): v rounded to 1e-6, counted in units of 1e-6.
Format6(v) == IF v = NaN THEN "nan" ELSE RoundDiv(v, 1000000)

\* write_opt3d_mapping: the count, then one line per point
MappingText(X, Y, Z) ==
  << <<Len(X)>> >> \o
  [k \in 1..Min(Len(X), Min(Len(Y), Len(Z))) |->
     <<Format6(X[k]), Format6(Y[k]), Format6(Z[k])>> \o ExtraConstants]

NoModel == [empty |-> TRUE]

NoConfig == [PITCH_X_START |-> 0, PITCH_X_END |-> 0, PITCH_Y |-> 0,
             INCLUDE_EDGES |-> FALSE,
             X_MIN |-> None, X_MAX |-> None, Y_MIN |-> None, Y_MAX |-> None]

\* The CONFIG blocks main is run with (lines 50-58).
PitchConfig(ps, pe, py, edges) ==
  [PITCH_X_START |-> ps, PITCH_X_END |-> pe, PITCH_Y |-> py,
   INCLUDE_EDGES |-> edges,
   X_MIN |-> None, X_MAX |-> None, Y_MIN |-> None, Y_MAX |-> None]

OverrideValues == { <<0>>, <<1000>> }

Configs ==
  { PitchConfig(2000, 3000, 2000, TRUE),
    PitchConfig(2000, 3000, 2000, FALSE),
    PitchConfig(0, 3000, 2000, TRUE) }
  \cup { [PitchConfig(2000, 3000, 2000, TRUE) EXCEPT ![k] = v] :
           k \in {"X_MIN", "X_MAX", "Y_MIN", "Y_MAX"}, v \in OverrideValues }

MainIdle ==
  /\ mainpc = "idle"
  /\ cfg = NoConfig
  /\ model = NoModel
  /\ loaded = NoModel
  /\ Z_pts = <<>>
  /\ merr = ""

\* lines 165, 153-158: ensure_model_json
Main_Start ==
  /\ mainpc = "idle"
  /\ fpc \in {"idle", "done", "raised"}
  /\ IF Exists("MODEL_JSON")
     THEN /\ mainpc' = "load"
          /\ UNCHANGED fitVars
     ELSE /\ mainpc' = "ensure"
          /\ FitCall(DefaultOrder, "ensure")
  /\ UNCHANGED <<cfg, model, loaded, Z_pts, merr>>
  /\ UNCHANGED <<files, gridVars, polyVars, toolVars, meshVars>>

\* lines 158-160: create_polynomial_surface returned or raised
Main_Ensured ==
  /\ mainpc = "ensure"
  /\ fcaller = "ensure"
  /\ fpc \in {"done", "raised"}
  /\ IF fpc = "raised"
     THEN mainpc' = "raised" /\ merr' = ferr
     ELSE IF ~Exists("MODEL_JSON")
          THEN mainpc' = "raised" /\ merr' = "FileNotFoundError"
          ELSE mainpc' = "load" /\ UNCHANGED merr
  /\ UNCHANGED <<cfg, model, loaded, Z_pts>>
  /\ UNCHANGED <<files, fitVars, gridVars, polyVars, toolVars, meshVars>>

\* lines 167-180: json.load, the reads of the model, the call of
\* generate_points with the pitches of the CONFIG block
Main_Load ==
  /\ mainpc = "load"
  /\ \E c \in Configs :
       LET obj == JsonLoad(Content("MODEL_JSON"))
       IN  /\ cfg' = c
           /\ model' = obj
           /\ IF ~(KeysRead(c) \subseteq DOMAIN obj)
              THEN /\ mainpc' = "raised"
                   /\ merr' = "KeyError"
                   /\ UNCHANGED <<loaded, gridVars>>
              ELSE /\ mainpc' = "grid"
                   /\ loaded' = [order  |-> obj["order"],
                                 coeffs |-> obj["coeffs"],
                                 x_mean |-> obj["x_mean"],
                                 x_std  |-> obj["x_std"],
                                 y_mean |-> obj["y_mean"],
                                 y_std  |-> obj["y_std"],
                                 x_min  |-> OrModel(c.X_MIN, obj, "x_min"),
                                 x_max  |-> OrModel(c.X_MAX, obj, "x_max"),
                                 y_min  |-> OrModel(c.Y_MIN, obj, "y_min"),
                                 y_max  |-> OrModel(c.Y_MAX, obj, "y_max")]
                   /\ gpc' = "start"
                   /\ domain' = <<loaded'.x_min, loaded'.x_max,
                                  loaded'.y_min, loaded'.y_max>>
                   /\ p_start' = c.PITCH_X_START
                   /\ p_end' = c.PITCH_X_END
                   /\ p_y' = c.PITCH_Y
                   /\ include_edges' = c.INCLUDE_EDGES
                   /\ ys' = <<>>
                   /\ y' = 0
                   /\ x' = 0
                   /\ row' = <<>>
                   /\ rowIdx' = 0
                   /\ X_list' = <<>>
                   /\ Y_list' = <<>>
                   /\ gerr' = ""
                   /\ UNCHANGED merr
  /\ UNCHANGED Z_pts
  /\ UNCHANGED <<files, fitVars, polyVars, toolVars, meshVars>>

\* lines 180-183: generate_points returned or raised; the elevations
Main_Eval ==
  /\ mainpc = "grid"
  /\ gpc \in {"done", "raised"}
  /\ IF gpc = "raised"
     THEN /\ mainpc' = "raised"
          /\ merr' = gerr
          /\ UNCHANGED Z_pts
     ELSE LET r == eval_poly2d(loaded.coeffs,
                               Normalise(X_list, loaded.x_mean, loaded.x_std),
                               Normalise(Y_list, loaded.y_mean, loaded.y_std),
                               loaded.order)
          IN  IF r.raised
              THEN /\ mainpc' = "raised"
                   /\ merr' = "IndexError"
                   /\ UNCHANGED Z_pts
              ELSE /\ mainpc' = "write"
                   /\ Z_pts' = r.z
                   /\ UNCHANGED merr
  /\ UNCHANGED <<cfg, model, loaded>>
  /\ UNCHANGED <<files, fitVars, gridVars, polyVars, toolVars, meshVars>>

\* line 184: write_opt3d_mapping
Main_Write ==
  /\ mainpc = "write"
  /\ files' = [files EXCEPT !["OUTPUT_MAPPING"] =
                 << MappingText(X_list, Y_list, Z_pts) >>]
  /\ mainpc' = "done"
  /\ UNCHANGED <<cfg, model, loaded, Z_pts, merr>>
  /\ UNCHANGED <<fitVars, gridVars, polyVars, toolVars, meshVars>>

MainNext ==
  \/ Main_Start
  \/ Main_Ensured
  \/ Main_Load
  \/ Main_Eval
  \/ Main_Write

PipeIdle ==
  /\ files = [name \in FileNames |-> <<>>]
  /\ FitIdle
  /\ MainIdle

(***************************************************************************)
(* scdm_script_tool/2.1 3DT Random.py: DynamicProbabilityForm.  Numbers    *)
(* of this script are kept in thousandths: 500 is 0.5.                     *)
(***************************************************************************)
\* most rows the form is grown to
MaxFormRows == 3

\* the texts str() writes into the boxes and a user types into them
FloatTexts ==
  { <<"0.0", 0>>, <<"0.5", 500>>, <<"1.0", 1000>>, <<"50.0", 50000>>,
    <<"100.0", 100000>> }

\* float(text) succeeds
IsFloat(text) == \E e \in FloatTexts : e[1] = text

\* float(text)
Float(text) == (CHOOSE e \in FloatTexts : e[1] = text)[2]

\* str(value)
Str(value) == (CHOOSE e \in FloatTexts : e[2] = value)[1]

ProbTexts == {"0.0", "1.0"}

XTexts == {"0.0", "50.0", "100.0", "abc"}

\* list.insert(index, item), index counted from 0
InsertAt(list, index, item) ==
  SubSeq(list, 1, index) \o <<item>> \o SubSeq(list, index + 1, Len(list))

\* del list[index], index counted from 0
DeleteAt(list, index) ==
  SubSeq(list, 1, index) \o SubSeq(list, index + 2, Len(list))

\* a TextBox pair not in use: the identity of the pair a constructor returns
NewPair(list) ==
  CHOOSE n \in 1..(Len(list) + 1) :
    /\ \A k \in 1..Len(list) : list[k].id # n
    /\ \A m \in 1..(n - 1) : \E k \in 1..Len(list) : list[k].id = m

\* _redraw_rows: every pair without a parent is added to the panel
RedrawRows(list, controls) == controls \cup { list[k].id : k \in 1..Len(list) }

\* _add_row_inputs, its effect on self.rows; insert_index is None or <<index>>
AddRowInputs(list, prob, xperc, fixed, insert_index) ==
  LET pair == [id |-> NewPair(list), prob |-> Str(prob), x |-> Str(xperc),
               Enabled |-> ~fixed]
      index == IF insert_index = None THEN Len(list) ELSE insert_index[1]
  IN  InsertAt(list, index, pair)

\* the form as __init__ leaves it
NewFormRows ==
  AddRowInputs(AddRowInputs(<<>>, 0, 0, TRUE, None), 1000, 100000, TRUE, None)

AddRowIndexAppends(list) == Len(list)

\* add_row: index = len(self.rows) - 1
AddRowIndex(list) == Len(list) - 1

add_row ==
  /\ Visible
  /\ Len(self_rows) < MaxFormRows
  /\ self_rows' = AddRowInputs(self_rows, 500, 50000, FALSE,
                               <<AddRowIndex(self_rows)>>)
  /\ panel' = RedrawRows(self_rows', panel)
  /\ UNCHANGED <<form_points, Visible, DialogResult, messages>>
  /\ UNCHANGED <<filterVars, kzVars, gridVars, polyVars, meshVars, pipeVars>>

remove_row ==
  /\ Visible
  /\ IF Len(self_rows) > 2
     THEN /\ self_rows' = DeleteAt(self_rows, Len(self_rows) - 2)
          /\ panel' = RedrawRows(self_rows',
                                 panel \ {self_rows[Len(self_rows) - 1].id})
     ELSE UNCHANGED <<self_rows, panel>>
  /\ UNCHANGED <<form_points, Visible, DialogResult, messages>>
  /\ UNCHANGED <<filterVars, kzVars, gridVars, polyVars, meshVars, pipeVars>>

\* the user types into a probability box
Form_EditProb ==
  /\ Visible
  /\ \E k \in 1..Len(self_rows) : \E text \in ProbTexts :
       self_rows' = [self_rows EXCEPT ![k].prob = text]
  /\ UNCHANGED <<panel, form_points, Visible, DialogResult, messages>>
  /\ UNCHANGED <<filterVars, kzVars, gridVars, polyVars, meshVars, pipeVars>>

\* the user types into an x box; a disabled box takes no input
Form_EditX ==
  /\ Visible
  /\ \E k \in 1..Len(self_rows) : \E text \in XTexts :
       /\ self_rows[k].Enabled
       /\ self_rows' = [self_rows EXCEPT ![k].x = text]
  /\ UNCHANGED <<panel, form_points, Visible, DialogResult, messages>>
  /\ UNCHANGED <<filterVars, kzVars, gridVars, polyVars, meshVars, pipeVars>>

\* sorted(raw, key=lambda p: p[1]): stable insertion by the x percentage
RECURSIVE InsertSorted(_, _)
InsertSorted(item, list) ==
  IF list = <<>> THEN <<item>>
  ELSE IF item[2] < Head(list)[2] THEN <<item>> \o list
  ELSE <<Head(list)>> \o InsertSorted(item, Tail(list))

RECURSIVE SortedByX(_)
SortedByX(list) ==
  IF list = <<>> THEN <<>>
  ELSE InsertSorted(list[Len(list)], SortedByX(SubSeq(list, 1, Len(list) - 1)))

\* the points on_run stores: (x / 100.0, p) of the rows sorted by x
RunPoints(list) ==
  LET raw == [k \in 1..Len(list) |-> <<Float(list[k].prob), Float(list[k].x)>>]
      sorted_points == SortedByX(raw)
  IN  [k \in 1..Len(raw) |->
         <<RoundDiv(sorted_points[k][2], 100), sorted_points[k][1]>>]

on_run ==
  /\ Visible
  /\ IF \A k \in 1..Len(self_rows) :
          IsFloat(self_rows[k].prob) /\ IsFloat(self_rows[k].x)
     THEN /\ form_points' = RunPoints(self_rows)
          /\ DialogResult' = "OK"
          /\ Visible' = FALSE
          /\ UNCHANGED messages
     ELSE /\ messages' = messages \cup {"Input Error"}
          /\ UNCHANGED <<form_points, DialogResult, Visible>>
  /\ UNCHANGED <<self_rows, panel>>
  /\ UNCHANGED <<filterVars, kzVars, gridVars, polyVars, meshVars, pipeVars>>

\* the user closes the window without Run
Form_Close ==
  /\ Visible
  /\ Visible' = FALSE
  /\ UNCHANGED <<self_rows, panel, form_points, DialogResult, messages>>
  /\ UNCHANGED <<filterVars, kzVars, gridVars, polyVars, meshVars, pipeVars>>

(***************************************************************************)
(* interpolate_probability and process_mapping_file of the same script.    *)
(***************************************************************************)
\* what interpolate_probability returns or raises
Interpolated(p, raised) == [p |-> p, raised |-> raised]

RECURSIVE InterpolateLoop(_, _, _)
InterpolateLoop(i, x_norm, cps) ==
  IF i > Len(cps) - 1
  THEN IF cps = <<>> THEN Interpolated(0, "IndexError")
       ELSE Interpolated(cps[Len(cps)][2], "")
  ELSE LET x0 == cps[i][1]
           p0 == cps[i][2]
           x1 == cps[i + 1][1]
           p1 == cps[i + 1][2]
       IN  IF x0 <= x_norm /\ x_norm <= x1
           THEN IF x1 - x0 = 0 THEN Interpolated(0, "ZeroDivisionError")
                ELSE Interpolated(p0 + RoundDiv((p1 - p0) * (x_norm - x0), x1 - x0), "")
           ELSE InterpolateLoop(i + 1, x_norm, cps)

interpolate_probability(x_norm, cps) == InterpolateLoop(1, x_norm, cps)

\* the values random.random() is sampled at: 0.0 <= draw < 1.0
Draws == {0, 500, 999}

\* the script ends in its except clause
ScriptError(exception) ==
  /\ rpc' = "raised"
  /\ rerr' = exception
  /\ messages' = messages \cup {"Script Error"}

\* after the form closed: the script goes on only if Run succeeded
Script_FormClosed ==
  /\ rpc = "form"
  /\ ~Visible
  /\ IF DialogResult = "OK"
     THEN /\ control_points' = form_points
          /\ messages' = messages \cup {"Processing"}
          /\ rpc' = "read"
     ELSE /\ rpc' = "done"
          /\ UNCHANGED <<control_points, messages>>
  /\ UNCHANGED <<self_rows, panel, form_points, Visible, DialogResult>>
  /\ UNCHANGED <<input_file, parsed, pm_x_max, pm_k, x_norms, probs, draws,
                 filtered_lines, output_file, rerr>>
  /\ UNCHANGED <<kzVars, gridVars, polyVars, meshVars, pipeVars>>

\* lines 397-410: read, split off the header, parse x of every line, x_max
PM_Read ==
  /\ rpc = "read"
  /\ LET data_lines == IF input_file = <<>> THEN <<>> ELSE Tail(input_file)
     IN  IF \E k \in 1..Len(data_lines) : data_lines[k] = <<>>
         THEN ScriptError("IndexError") /\ UNCHANGED <<parsed, pm_x_max, pm_k>>
         ELSE /\ parsed' = [k \in 1..Len(data_lines) |->
                              <<data_lines[k][1], data_lines[k]>>]
              /\ IF data_lines = <<>>
                 THEN ScriptError("ValueError") /\ UNCHANGED <<pm_x_max, pm_k>>
                 ELSE /\ pm_x_max' = MaxSeq(Column(parsed', 1))
                      /\ pm_k' = 1
                      /\ rpc' = "filter"
                      /\ UNCHANGED <<rerr, messages>>
  /\ UNCHANGED <<self_rows, panel, form_points, Visible, DialogResult>>
  /\ UNCHANGED <<input_file, control_points, x_norms, probs, draws,
                 filtered_lines, output_file>>
  /\ UNCHANGED <<kzVars, gridVars, polyVars, meshVars, pipeVars>>

\* lines 414-418: one pass of the filtering loop
PM_Row ==
  /\ rpc = "filter"
  /\ pm_k <= Len(parsed)
  /\ LET xv == parsed[pm_k][1]
         line == parsed[pm_k][2]
     IN  IF pm_x_max = 0
         THEN ScriptError("ZeroDivisionError")
              /\ UNCHANGED <<pm_k, x_norms, probs, draws, filtered_lines>>
         ELSE LET x_norm == RoundDiv(xv * 1000, pm_x_max)
                  r == interpolate_probability(x_norm, control_points)
              IN  IF r.raised # ""
                  THEN ScriptError(r.raised)
                       /\ UNCHANGED <<pm_k, x_norms, probs, draws, filtered_lines>>
                  ELSE \E draw \in Draws :
                         /\ x_norms' = Append(x_norms, x_norm)
                         /\ probs' = Append(probs, r.p)
                         /\ draws' = Append(draws, draw)
                         /\ filtered_lines' = IF draw >= r.p
                                              THEN Append(filtered_lines, line)
                                              ELSE filtered_lines
                         /\ pm_k' = pm_k + 1
                         /\ UNCHANGED <<rpc, rerr, messages>>
  /\ UNCHANGED <<self_rows, panel, form_points, Visible, DialogResult>>
  /\ UNCHANGED <<input_file, control_points, parsed, pm_x_max, output_file>>
  /\ UNCHANGED <<kzVars, gridVars, polyVars, meshVars, pipeVars>>

\* lines 420-432 and 499-501: the count, then the kept lines
PM_Write ==
  /\ rpc = "filter"
  /\ pm_k > Len(parsed)
  /\ output_file' = << <<Len(filtered_lines)>> >> \o filtered_lines
  /\ messages' = messages \cup {"Done"}
  /\ rpc' = "done"
  /\ UNCHANGED <<self_rows, panel, form_points, Visible, DialogResult>>
  /\ UNCHANGED <<input_file, control_points, parsed, pm_x_max, pm_k, x_norms,
                 probs, draws, filtered_lines, rerr>>
  /\ UNCHANGED <<kzVars, gridVars, polyVars, meshVars, pipeVars>>

\* Mapping files handed to the filter: a header line, then the data rows
\* with x first; <<>> is a blank line.
RandomFiles ==
  { << <<0>> >>,
    << <<1>>, <<500, 7>> >>,
    << <<2>>, <<0, 7>>, <<1000, 8>> >>,
    << <<2>>, <<1000, 7>>, <<500, 8>> >>,
    << <<5>>, <<250, 7>>, <<1000, 8>> >>,
    << <<2>>, <<0, 7>>, <<0, 8>> >>,
    << <<2>>, <<1000, 7>>, <<>> >> }

RandomIdle ==
  /\ self_rows = <<>>
  /\ panel = {}
  /\ form_points = <<>>
  /\ Visible = FALSE
  /\ DialogResult = "None"
  /\ messages = {}
  /\ rpc = "idle"
  /\ input_file = <<>>
  /\ control_points = <<>>
  /\ parsed = <<>>
  /\ pm_x_max = 0
  /\ pm_k = 0
  /\ x_norms = <<>>
  /\ probs = <<>>
  /\ draws = <<>>
  /\ filtered_lines = <<>>
  /\ output_file = <<>>
  /\ rerr = ""

\* the form is shown for a texture whose mapping file is input_file
RandomInit ==
  /\ self_rows = NewFormRows
  /\ panel = RedrawRows(NewFormRows, {})
  /\ form_points = <<>>
  /\ Visible = TRUE
  /\ DialogResult = "None"
  /\ messages = {}
  /\ rpc = "form"
  /\ input_file \in RandomFiles
  /\ control_points = <<>>
  /\ parsed = <<>>
  /\ pm_x_max = 0
  /\ pm_k = 0
  /\ x_norms = <<>>
  /\ probs = <<>>
  /\ draws = <<>>
  /\ filtered_lines = <<>>
  /\ output_file = <<>>
  /\ rerr = ""

RandomNext ==
  \/ add_row
  \/ remove_row
  \/ Form_EditProb
  \/ Form_EditX
  \/ on_run
  \/ Form_Close
  \/ Script_FormClosed
  \/ PM_Read
  \/ PM_Row
  \/ PM_Write

(***************************************************************************)
(* B_2 Update Kz variation in mapping file.py.  Numbers of this script are *)
(* kept in millionths: 500000 is 0.5.  A field of a line is the pair of    *)
(* the way it is written ("int" for 5, "float" for 5.0) and its value.     *)
(***************************************************************************)
K_Z_1 == 500000

K_Z_2 == 100000

\* most data lines of the file at input_path
MaxKzRows == 3

\* float(field)
FieldValue(field) == field[2]

\* str(value) of a float
FieldOf(value) == <<"float", value>>

\* round(v, 6) of K_Z_1 + (K_Z_2 - K_Z_1) * t, t = (x - x_min) / (x_max - x_min)
KzValueFromMax(xv, lo, hi) == K_Z_1 + RoundDiv((K_Z_2 - K_Z_1) * (hi - xv), hi - lo)

KzValue(xv, lo, hi) == K_Z_1 + RoundDiv((K_Z_2 - K_Z_1) * (xv - lo), hi - lo)

\* lines 15-24: header, the non-empty data lines, their fields as floats
Kz_Read ==
  /\ kpc = "read"
  /\ IF kz_input = <<>>
     THEN kpc' = "raised" /\ kerr' = "IndexError" /\ UNCHANGED <<header, data>>
     ELSE /\ header' = Head(kz_input)
          /\ data' = LET data_lines == SelectSeq(Tail(kz_input), LAMBDA l : l # <<>>)
                     IN  [k \in 1..Len(data_lines) |->
                            [c \in 1..Len(data_lines[k]) |-> FieldValue(data_lines[k][c])]]
          /\ kpc' = "range"
          /\ UNCHANGED kerr
  /\ UNCHANGED <<kz_input, kz_x_min, kz_x_max, kz_row, kz_output>>
  /\ UNCHANGED <<randomVars, gridVars, polyVars, meshVars, pipeVars>>

\* lines 28-34: the range of x, refused when it is empty
Kz_Range ==
  /\ kpc = "range"
  /\ IF data = <<>>
     THEN kpc' = "raised" /\ kerr' = "ValueError" /\ UNCHANGED <<kz_x_min, kz_x_max, kz_row>>
     ELSE /\ kz_x_min' = MinSeq(Column(data, 1))
          /\ kz_x_max' = MaxSeq(Column(data, 1))
          /\ IF kz_x_max' = kz_x_min'
             THEN kpc' = "raised" /\ kerr' = "ValueError" /\ UNCHANGED kz_row
             ELSE kpc' = "rows" /\ kz_row' = 1 /\ UNCHANGED kerr
  /\ UNCHANGED <<kz_input, header, data, kz_output>>
  /\ UNCHANGED <<randomVars, gridVars, polyVars, meshVars, pipeVars>>

\* lines 39-45: one pass of the loop, row[-1] = round(new_value, 6)
Kz_Row ==
  /\ kpc = "rows"
  /\ kz_row <= Len(data)
  /\ data' = [data EXCEPT ![kz_row][Len(data[kz_row])] =
                 KzValue(data[kz_row][1], kz_x_min, kz_x_max)]
  /\ kz_row' = kz_row + 1
  /\ UNCHANGED <<kpc, kz_input, header, kz_x_min, kz_x_max, kz_output, kerr>>
  /\ UNCHANGED <<randomVars, gridVars, polyVars, meshVars, pipeVars>>

\* lines 49-54: the header, then every row as tab-separated str(float)
Kz_Write ==
  /\ kpc = "rows"
  /\ kz_row > Len(data)
  /\ kz_output' = << <<header>> \o
                     [k \in 1..Len(data) |->
                        [c \in 1..Len(data[k]) |-> FieldOf(data[k][c])]] >>
  /\ kpc' = "done"
  /\ UNCHANGED <<kz_input, header, data, kz_x_min, kz_x_max, kz_row, kerr>>
  /\ UNCHANGED <<randomVars, gridVars, polyVars, meshVars, pipeVars>>

KzNext ==
  \/ Kz_Read
  \/ Kz_Range
  \/ Kz_Row
  \/ Kz_Write

\* data lines: x first, the value to replace last; <<>> is an empty line
KzRowValues ==
  { << <<"int", 0>>, <<"int", 5000000>>, <<"float", 700000>> >>,
    << <<"float", 500>>, <<"int", 5000000>>, <<"int", 1000000>> >>,
    << <<"int", 1500>>, <<"float", 9000000>> >>,
    << <<"float", 1500>> >>,
    <<>> }

\* the header line holds the number of lines that follow
KzFiles ==
  { << << <<"int", Len(ls)>> >> >> \o ls : ls \in SeqsUpTo(KzRowValues, MaxKzRows) }

KzIdle ==
  /\ kpc = "idle"
  /\ kz_input = <<>>
  /\ header = <<>>
  /\ data = <<>>
  /\ kz_x_min = 0
  /\ kz_x_max = 0
  /\ kz_row = 0
  /\ kz_output = <<>>
  /\ kerr = ""

KzInit ==
  /\ kpc = "read"
  /\ kz_input \in KzFiles
  /\ header = <<>>
  /\ data = <<>>
  /\ kz_x_min = 0
  /\ kz_x_max = 0
  /\ kz_row = 0
  /\ kz_output = <<>>
  /\ kerr = ""

\* Every other script idle
ToolIdle == RandomIdle /\ KzIdle

(***************************************************************************)
(* What is on the disk before the scripts run.                             *)
(***************************************************************************)
\* Data rows: whitespace-separated numbers.  The four-field row stands for
\* the twelve-field rows of a mapping file; <<1, 2>> has too few fields.
RowValues == { <<0, 0, 0>>, <<0, 4000, 5>>, <<4000, 4000, 8, 1>>, <<1, 2>> }

\* line 1 is the count, then the rows
InputFiles == { << <<Len(rows)>> >> \o rows : rows \in SeqsUpTo(RowValues, MaxRows) }

StoredValues(ord, cs) == <<ord, cs, 2000, 2000, 2000, 2000, 0, 4000, 0, 4000>>

\* Model files a previous run, another tool or an editor left on the disk.
StoredModels ==
  { JsonDump(ModelKeys, StoredValues(1, <<1, 2, 3>>)),
    JsonDump(ModelKeys, StoredValues(1, <<1, 2>>)),
    JsonDump(ModelKeys, StoredValues(1, <<1, 2, 3, 4>>)),
    JsonDump(ModelKeysDegree, StoredValues(1, <<1, 2, 3>>)),
    SubSeq(JsonDump(ModelKeys, StoredValues(1, <<1, 2, 3>>)), 1, 6) }

Init ==
  /\ \E text \in InputFiles : \E stored \in {<<>>} \cup {<<m>> : m \in StoredModels} :
       files = [name \in FileNames |->
                  IF name = "INPUT_MAPPING" THEN <<text>>
                  ELSE IF name = "MODEL_JSON" THEN stored
                  ELSE <<>>]
  /\ FitIdle
  /\ MainIdle
  /\ GridIdle
  /\ PolyIdle
  /\ MeshIdle
  /\ ToolIdle

Next ==
  \/ F_Start
  \/ F_Read
  \/ F_Normalise
  \/ F_Fit
  \/ F_FitRaises
  \/ F_Grid
  \/ Mesh_Cell
  \/ Mesh_NextRow
  \/ Mesh_Done
  \/ F_Export
  \/ F_Save
  \/ Main_Start
  \/ Main_Ensured
  \/ Main_Load
  \/ GP_Check
  \/ GP_YStep
  \/ GP_YEnd
  \/ GP_RowStart
  \/ GP_XStep
  \/ GP_RowEnd
  \/ GP_Return
  \/ Main_Eval
  \/ Main_Write

Spec == Init /\ [][Next]_vars

InitGrid == GridInit /\ PolyIdle /\ MeshIdle /\ PipeIdle /\ ToolIdle

SpecGrid == InitGrid /\ [][GridNext]_vars

InitPoly == PolyInit /\ GridIdle /\ MeshIdle /\ PipeIdle /\ ToolIdle

SpecPoly == InitPoly /\ [][PolyNext]_vars

InitMesh == MeshInit /\ GridIdle /\ PolyIdle /\ PipeIdle /\ ToolIdle

SpecMesh == InitMesh /\ [][MeshNext]_vars

InitRandom == RandomInit /\ KzIdle /\ GridIdle /\ PolyIdle /\ MeshIdle /\ PipeIdle

SpecRandom == InitRandom /\ [][RandomNext]_vars

InitKz == KzInit /\ RandomIdle /\ GridIdle /\ PolyIdle /\ MeshIdle /\ PipeIdle

SpecKz == InitKz /\ [][KzNext]_vars

(***************************************************************************)
(* Properties of generate_points, checked under SpecGrid.                  *)
(***************************************************************************)
\* The rows of the returned grid: a row starts where Y_list changes.
RowStarts ==
  { k \in 1..Len(X_list) : k = 1 \/ Y_list[k] # Y_list[k - 1] }

RowEnds ==
  { k \in 1..Len(X_list) : k = Len(X_list) \/ Y_list[k] # Y_list[k + 1] }

\* The step of the specification, at walked position xv:
\* pitchXStart + (pitchXEnd - pitchXStart) * clamp((x - x_min)/(x_max - x_min), 0, 1)
C3_Pitch(xv) ==
  LET w  == x_max - x_min
      tn == IF w > 0 THEN Clip(xv - x_min, 0, w) ELSE Clip(x_min - xv, 0, -w)
  IN  p_start + RoundDiv((p_end - p_start) * tn, Abs(w))

C3_WalkStep ==
  /\ (gpc = "rows" /\ gpc' = "xwalk") => x' = x_min
  /\ (gpc = "xwalk" /\ gpc' = "xwalk" /\ x_max # x_min) => x' = x + C3_Pitch(x)

C3_ConstantPitchGaps ==
  p_start = p_end =>
    \A k \in 1..(Len(row) - 1) :
      /\ row[k + 1] - row[k] <= p_start
      /\ k + 1 < Len(row) => row[k + 1] - row[k] = p_start

C4_Case ==
  /\ gpc = "done"
  /\ include_edges
  /\ x_min <= x_max
  /\ y_min <= y_max

\* C4 as stated: with includeEdges and positive pitches the first and last x
\* of every row are exactly x_min and x_max, the first and last y exactly
\* y_min and y_max.
C4_EdgesExact ==
  C4_Case =>
    /\ X_list # <<>>
    /\ Y_list[1] = y_min
    /\ Y_list[Len(Y_list)] = y_max
    /\ \A k \in RowStarts : X_list[k] = x_min
    /\ \A k \in RowEnds : X_list[k] = x_max

\* C4, amended: the first x of every row is exactly x_min and the first y
\* exactly y_min; the last x of every row lies in [x_max - 1e-9, x_max] and
\* the last y in [y_max - 1e-9, y_max].
C4_EdgesWithinTolerance ==
  C4_Case =>
    /\ X_list # <<>>
    /\ Y_list[1] = y_min
    /\ y_max - Y_list[Len(Y_list)] \in 0..EdgeTol
    /\ \A k \in RowStarts : X_list[k] = x_min
    /\ \A k \in RowEnds : x_max - X_list[k] \in 0..EdgeTol

C4_Witness ==
  /\ C4_Case
  /\ Cardinality(RowEnds) >= 2
  /\ Len(X_list) > Cardinality(RowEnds)
  /\ \A k \in RowEnds : X_list[k] < x_max
  /\ Y_list[Len(Y_list)] = y_max

\* C5: generate_points fails with the invalid-pitch error exactly when one
\* of pitchXStart, pitchXEnd, pitchY is <= 0, and it fails before any point
\* is generated.
C5_InvalidPitchRejected ==
  /\ gpc # "start" =>
       (gerr = "ValueError" <=> (p_start <= 0 \/ p_end <= 0 \/ p_y <= 0))
  /\ gerr = "ValueError" =>
       /\ gpc = "raised"
       /\ ys = <<>> /\ row = <<>> /\ X_list = <<>> /\ Y_list = <<>>

C5_Witness ==
  /\ gpc = "raised"
  /\ gerr = "ValueError"
  /\ p_start = 0 /\ p_end > 0 /\ p_y > 0
  /\ X_list = <<>>

(***************************************************************************)
(* Properties of the polynomial functions, checked under SpecPoly.         *)
(***************************************************************************)
\* The position (from 1) of exponent pair (i, j) when i runs from 0 to d and,
\* inside, j from 0 to d - i.
C1_Column(i, j, d) == i * (d + 1) - (i * (i - 1)) \div 2 + j + 1

C1_PairAt(k, d) ==
  CHOOSE ij \in (0..d) \X (0..d) :
    ij[2] <= d - ij[1] /\ C1_Column(ij[1], ij[2], d) = k

RECURSIVE C1_Sum(_, _, _, _, _)
C1_Sum(cs, xv, yv, d, k) ==
  IF k = 0 THEN 0
  ELSE LET ij == C1_PairAt(k, d)
       IN  FAdd(C1_Sum(cs, xv, yv, d, k - 1),
                FMul(FMul(cs[k], FPow(xv, ij[1])), FPow(yv, ij[2])))

C1_Expected == [n \in 1..Len(pX) |-> C1_Sum(pCoeffs, pX[n], pY[n], pOrder, CoeffCount(pOrder))]

\* C1: column k of build_design_matrix is the monomial x^i * y^j of the k-th
\* pair (i outer, j inner); both evaluators multiply coefficient k by that
\* same monomial, so they return the same z, and neither reads a coefficient
\* index >= (D+1)(D+2)/2.
C1_SameEnumeration ==
  /\ "design" \in pcalls =>
       \A n \in 1..Len(pX) : \A i \in 0..pOrder : \A j \in 0..(pOrder - i) :
         pDesign[n][C1_Column(i, j, pOrder)] = FMul(FPow(pX[n], i), FPow(pY[n], j))
  /\ ("fit" \in pcalls /\ Len(pCoeffs) >= CoeffCount(pOrder)) =>
       ~pFit.raised /\ pFit.z = C1_Expected
  /\ ("map" \in pcalls /\ Len(pCoeffs) >= CoeffCount(pOrder)) =>
       ~pMap.raised /\ pMap.z = C1_Expected
  /\ {"fit", "map"} \subseteq pcalls => pFit = pMap
  /\ \A idx \in pFit.reads \cup pMap.reads : idx < CoeffCount(pOrder)

C1_Witness ==
  /\ pcalls = {"design", "fit", "map"}
  /\ pOrder = 2
  /\ pCoeffs = UnitVector(6, 5)
  /\ pX = <<2>> /\ pY = <<3>>
  /\ pFit.z = <<6>>
  /\ pMap.z = <<6>>
  /\ pMap.reads = 0..5

(***************************************************************************)
(* Properties of the triangulation, checked under SpecMesh.                *)
(***************************************************************************)
\* C6: a res_x by res_y grid gets exactly 2 * (res_x - 1) * (res_y - 1)
\* triangles; cell (i, j) with idx = i * res_y + j contributes
\* (idx, idx + 1, idx + res_y) then (idx + 1, idx + res_y + 1, idx + res_y);
\* every index is in [0, res_x * res_y) and the indices of a triangle are
\* pairwise distinct; a 2 x 2 grid gets exactly (0, 1, 2) and (1, 3, 2).
C6_Triangulation ==
  mpc = "done" =>
    /\ Len(faces) = 2 * (res_x - 1) * (res_y - 1)
    /\ \A i \in 0..(res_x - 2) : \A j \in 0..(res_y - 2) :
         LET idx == i * res_y + j
             k   == 2 * (i * (res_y - 1) + j) + 1
         IN  /\ faces[k] = <<idx, idx + 1, idx + res_y>>
             /\ faces[k + 1] = <<idx + 1, idx + res_y + 1, idx + res_y>>
    /\ \A k \in 1..Len(faces) :
         /\ \A c \in 1..3 : faces[k][c] \in 0..(res_x * res_y - 1)
         /\ Cardinality({faces[k][1], faces[k][2], faces[k][3]}) = 3
    /\ (res_x = 2 /\ res_y = 2) => faces = << <<0, 1, 2>>, <<1, 3, 2>> >>

C6_Witness ==
  /\ mpc = "done"
  /\ res_x = 3 /\ res_y = 4
  /\ Len(faces) = 12
  /\ faces[12] = <<7, 11, 10>>

(***************************************************************************)
(* Properties of the two scripts, checked under Spec.                      *)
(***************************************************************************)
\* C2: after a fit of order D the design matrix has exactly (D+1)(D+2)/2
\* columns and the coefficient vector has that length.
C2_CoefficientCount ==
  /\ X_design # <<>> =>
       /\ Len(X_design) = Len(points)
       /\ \A n \in 1..Len(X_design) :
            Len(X_design[n]) = ((order + 1) * (order + 2)) \div 2
  /\ fpc \in {"grid", "mesh", "save", "done"} =>
       Len(coeffs) = ((order + 1) * (order + 2)) \div 2

C2_Witness ==
  /\ fpc = "done"
  /\ order = 3
  /\ Len(coeffs) = 10
  /\ Len(X_design[1]) = 10

\* C7: the model main loads from the file the fit wrote equals the fitted
\* model field for field, and every key main reads is a key the fit wrote.
C7_RoundTrip ==
  (fpc = "done" /\ mainpc \in {"grid", "write", "done", "raised"}) =>
    /\ KeysRead(cfg) \subseteq DOMAIN model
    /\ merr # "KeyError"
    /\ model["order"] = order /\ loaded.order = order
    /\ model["coeffs"] = coeffs /\ loaded.coeffs = coeffs
    /\ model["x_mean"] = x_mean /\ loaded.x_mean = x_mean
    /\ model["x_std"] = x_std /\ loaded.x_std = x_std
    /\ model["y_mean"] = y_mean /\ loaded.y_mean = y_mean
    /\ model["y_std"] = y_std /\ loaded.y_std = y_std
    /\ model["x_min"] = MinSeq(Column(points, 1))
    /\ model["x_max"] = MaxSeq(Column(points, 1))
    /\ model["y_min"] = MinSeq(Column(points, 2))
    /\ model["y_max"] = MaxSeq(Column(points, 2))

C7_Witness ==
  /\ fpc = "done"
  /\ mainpc = "done"
  /\ order = 2
  /\ Len(loaded.coeffs) = 6
  /\ loaded.coeffs = coeffs
  /\ loaded.x_std = 2000
  /\ model["x_max"] = 4000

\* A stored model that lacks a field or whose coefficient count does not
\* match its order.
C8_Corrupt(obj) ==
  \/ \E k \in 1..Len(ModelKeys) : ModelKeys[k] \notin DOMAIN obj
  \/ Len(obj["coeffs"]) # ((obj["order"] + 1) * (obj["order"] + 2)) \div 2

\* C8: loading a model that lacks a required field, or whose coefficient
\* count differs from (degree+1)(degree+2)/2, fails, and no mapping file is
\* written from it.
C8_CorruptModelRejected ==
  (model # NoModel /\ C8_Corrupt(model)) =>
    /\ mainpc \notin {"write", "done"}
    /\ ~Exists("OUTPUT_MAPPING")

\* C9: the fit fails when std_x or std_y of the input points is zero; no
\* mesh and no model is produced from such input.
C9_DegenerateInputRejected ==
  (fpc \notin {"idle", "read", "normalise"} /\ (x_std = 0 \/ y_std = 0)) =>
    fpc \in {"fit", "raised"}

C10_ShortRow ==
  \E n \in 1..Len(DataLines(Content("INPUT_MAPPING"))) :
    Len(DataLines(Content("INPUT_MAPPING"))[n]) < 3

\* C10: a data row with fewer than 3 numeric fields aborts the fit: the row
\* is not skipped, and neither the STL nor the model is written.
C10_MalformedRowAborts ==
  (C10_ShortRow /\ fpc \notin {"idle", "read"}) => fpc = "raised"

(***************************************************************************)
(* Claims about the control-point form and the row filter.                 *)
(***************************************************************************)
C11_Shape ==
  /\ Len(self_rows) >= 2
  /\ self_rows[1].x = "0.0" /\ ~self_rows[1].Enabled
  /\ self_rows[Len(self_rows)].x = "100.0" /\ ~self_rows[Len(self_rows)].Enabled
  /\ \A k \in 2..(Len(self_rows) - 1) : self_rows[k].Enabled

C11_Clicks ==
  LET n == Len(self_rows)
  IN  /\ Len(self_rows') = n + 1 =>
           /\ SubSeq(self_rows', 1, n - 1) = SubSeq(self_rows, 1, n - 1)
           /\ self_rows'[n].Enabled
           /\ self_rows'[n + 1] = self_rows[n]
      /\ Len(self_rows') = n - 1 =>
           self_rows' = SubSeq(self_rows, 1, n - 2) \o <<self_rows[n]>>
      /\ Len(self_rows') \in {n - 1, n, n + 1}
      /\ (remove_row /\ n = 2) => UNCHANGED <<self_rows, panel>>

C12_Points ==
  /\ control_points # <<>>
  /\ \A k \in 1..Len(control_points) :
       control_points[k][1] \in 0..1000 /\ control_points[k][2] \in 0..1000
  /\ \A k \in 1..(Len(control_points) - 1) :
       control_points[k][1] <= control_points[k + 1][1]

\* p lies between the probabilities of two control points around x_norm
C12_Between(x_norm, p) ==
  \E i \in 1..(Len(control_points) - 1) :
    /\ control_points[i][1] <= x_norm /\ x_norm <= control_points[i + 1][1]
    /\ Min(control_points[i][2], control_points[i + 1][2]) <= p
    /\ p <= -Min(-control_points[i][2], -control_points[i + 1][2])

\* the next call of interpolate_probability, while the filter loop runs
C12_NextCall ==
  /\ rpc = "filter" /\ pm_k <= Len(parsed) /\ pm_x_max > 0
  /\ RoundDiv(parsed[pm_k][1] * 1000, pm_x_max) \in 0..1000

\* C12: on sorted control points with x and probability in [0, 1] and x_norm
\* in [0, 1], interpolate_probability never fails, also when two control
\* points share an x; its result is in [0, 1], between the probabilities
\* of the two control points around x_norm (the last point's probability
\* past the last point).
C12_InterpolationTotal ==
  C12_Points =>
    /\ C12_NextCall =>
         interpolate_probability(RoundDiv(parsed[pm_k][1] * 1000, pm_x_max),
                                 control_points).raised = ""
    /\ \A k \in 1..Len(probs) :
         /\ probs[k] \in 0..1000
         /\ x_norms[k] \in 0..1000 =>
              IF x_norms[k] > control_points[Len(control_points)][1]
              THEN probs[k] = control_points[Len(control_points)][2]
              ELSE C12_Between(x_norms[k], probs[k])

\* the input rows the draws kept, in input order
RECURSIVE C13_Kept(_)
C13_Kept(k) ==
  IF k = 0 THEN <<>>
  ELSE IF draws[k] >= probs[k] THEN Append(C13_Kept(k - 1), input_file[k + 1])
  ELSE C13_Kept(k - 1)

\* C13: for any input file and any draws, process_mapping_file writes an
\* output whose header is the number of rows kept and whose rows are the
\* input rows with draw >= interpolated probability, unmodified and in input
\* order; a row of probability 0 is always kept, one of probability 1 never.
C13_FilteredOutput ==
  (rpc \in {"done", "raised"} /\ DialogResult = "OK") =>
    /\ output_file # <<>>
    /\ Len(draws) = Len(input_file) - 1
    /\ output_file = << <<Len(C13_Kept(Len(draws)))>> >> \o C13_Kept(Len(draws))
    /\ \A k \in 1..Len(probs) :
         /\ probs[k] = 0 => draws[k] >= probs[k]
         /\ probs[k] = 1000 => draws[k] < probs[k]


(***************************************************************************)
(* Claims about the Kz-variation script.                                   *)
(***************************************************************************)
\* the non-empty data lines of the input, and the x range they span
C14_Rows == SelectSeq(Tail(kz_input), LAMBDA l : l # <<>>)

C14_X(k) == C14_Rows[k][1][2]

C14_Lo == MinSeq([k \in 1..Len(C14_Rows) |-> C14_X(k)])

C14_Hi == MaxSeq([k \in 1..Len(C14_Rows) |-> C14_X(k)])

\* C14: when the x values are not all identical, the output has the input's
\* header line and its data rows in number and order; every field but the
\* last keeps its numeric value, the last one becomes
\* K_Z_1 + (K_Z_2 - K_Z_1) * (x - x_min) / (x_max - x_min) rounded to 6
\* decimals, which is K_Z_1 at the minimum x and K_Z_2 at the maximum x.
C14_KzVariation ==
  (kpc \in {"done", "raised"} /\ C14_Rows # <<>> /\ C14_Lo # C14_Hi) =>
    /\ kz_output # <<>>
    /\ LET out == kz_output[1]
       IN  /\ Head(out) = Head(kz_input)
           /\ Len(out) = Len(C14_Rows) + 1
           /\ \A k \in 1..Len(C14_Rows) :
                LET old == C14_Rows[k]
                    new == out[k + 1]
                    n == Len(old)
                IN  /\ Len(new) = n
                    /\ \A c \in 1..(n - 1) : new[c][2] = old[c][2]
                    /\ (new[n][2] - K_Z_1) * (C14_Hi - C14_Lo) - (K_Z_2 - K_Z_1) * (C14_X(k) - C14_Lo)
                          \in (-(C14_Hi - C14_Lo) \div 2 - 1)..((C14_Hi - C14_Lo) \div 2 + 1)
                    /\ C14_X(k) = C14_Lo => new[n][2] = K_Z_1
                    /\ C14_X(k) = C14_Hi => new[n][2] = K_Z_2

C14_Witness ==
  /\ kpc = "done"
  /\ Len(kz_output[1]) = 4
  /\ kz_output[1][2] = << <<"float", 0>>, <<"float", 5000000>>, <<"float", K_Z_1>> >>
  /\ kz_output[1][3] = << <<"float", 500>>, <<"float", 5000000>>, <<"float", 366667>> >>
  /\ kz_output[1][4] = << <<"float", 1500>>, <<"float", K_Z_2>> >>


(***************************************************************************)
(* Claims about generate_points and the bounds main passes to it.          *)
(***************************************************************************)
C15_Case ==
  /\ x_min <= x_max
  /\ y_min <= y_max
  /\ p_start > 0 /\ p_end > 0 /\ p_y > 0

C15_Increasing(list) == \A k \in 1..(Len(list) - 1) : list[k] < list[k + 1]

C15_Points ==
  /\ C15_Increasing(row)
  /\ C15_Increasing(ys)
  /\ \A k \in 1..Len(X_list) :
       /\ x_min <= X_list[k] /\ X_list[k] <= x_max
       /\ y_min <= Y_list[k] /\ Y_list[k] <= y_max

\* every pass of a loop moves its variable towards the end of the loop,
\* and the call has not failed
C15_Progress ==
  /\ (gpc = "xwalk" /\ gpc' = "xwalk") => x' > x
  /\ (gpc = "ywalk" /\ gpc' = "ywalk") => y' > y
  /\ gpc' # "raised"

\* C15: on a domain with x_min <= x_max and y_min <= y_max and pitches > 0
\* generate_points terminates; the x of a row strictly increase, the y
\* strictly increase from row to row, every point lies in the domain.
C15_TerminatesInsideDomain ==
  [](C15_Case => C15_Points) /\ [][C15_Case => C15_Progress]_vars


\* the bound generate_points gets where the configuration holds override
C16_Bound(override, key, i) ==
  domain[i] = IF override # None THEN override[1] ELSE model[key]

\* C16: each domain bound main passes to generate_points is the configured
\* override X_MIN, X_MAX, Y_MIN, Y_MAX whenever that override is not None,
\* 0 included, and the bound stored in the model only when it is None.
C16_OverridesUsed ==
  gpc # "idle" =>
    /\ C16_Bound(cfg.X_MIN, "x_min", 1)
    /\ C16_Bound(cfg.X_MAX, "x_max", 2)
    /\ C16_Bound(cfg.Y_MIN, "y_min", 3)
    /\ C16_Bound(cfg.Y_MAX, "y_max", 4)


=============================================================================
